---- MODULE Spec2Model ----
(***************************************************************************)
(* A model of dab/netbios.py: the NetBIOS name-service client (class       *)
(* NetBIOS).  Datagrams are sequences of bytes (0..255); strings are       *)
(* sequences of code points.  The pure functions (_encode_name,            *)
(* _prepare_net_name_query, _decode_ip_query_packet) are operators that    *)
(* compute what the Python code computes, byte for byte; the blocking      *)
(* exchange (query_ip_for_name / _poll_for_query_packet) is a state        *)
(* machine over the socket, the clock and the caller's position.           *)
(***************************************************************************)
EXTENDS Integers, Sequences, FiniteSets, TLC

VARIABLES
    sock,         \* self.sock: "open", or "None" after close()
    broadcast,    \* self.broadcast
    pc,           \* the caller's position: "idle", "loop", "select", "recv"
    now,          \* time.time()
    wait_trn_id,  \* the transaction ID of the running exchange
    end_time,     \* the deadline of the running exchange
    remaining,    \* the timeout handed to the last select.select
    inbox,        \* datagrams queued on the socket, not yet received
    arrived,      \* how many datagrams have arrived on the socket so far
    data,         \* the datagram returned by the last recvfrom
    dec,          \* what _decode_ip_query_packet made of data
    wire,         \* the datagrams this call has handed to sendto
    op,           \* the public operation called last
    calls,        \* how many times query_ip_for_name has been called
    waits,        \* how many select.select calls this exchange has made
    recvs,        \* how many recvfrom calls this exchange has made
    last,         \* the step of the exchange taken last
    result,       \* how the last operation ended
    arg,          \* the arguments of the helper called on its own
    out           \* what that helper returned or raised

vars == <<sock, broadcast, pc, now, wait_trn_id, end_time, remaining,
          inbox, arrived, data, dec, wire, op, calls, waits, recvs, last, result,
          arg, out>>

----------------------------------------------------------------------------
(* Program constants *)

TYPE_SERVER == 32
HEADER_STRUCT_SIZE == 12
NumNamesOffset == 44
FirstEntryOffset == 45
NameLen == 15
EntryLen == 18
RecvMax == 65535

(* Bounds of the model *)

MaxTime == 2
MaxArrivals == 2
MaxCalls == 1
MaxNames == 2

----------------------------------------------------------------------------
(* Bytes and strings *)

Min(a, b) == IF a < b THEN a ELSE b

Max(a, b) == IF a < b THEN b ELSE a

\* data[a:b] of Python: 0-based, half-open, clamped to the sequence
Slice(s, a, b) == SubSeq(s, a + 1, Min(b, Len(s)))

Repeat(x, n) == [i \in 1..n |-> x]

RECURSIVE Flatten(_)
Flatten(ss) == IF ss = <<>> THEN <<>> ELSE Head(ss) \o Flatten(Tail(ss))

\* A 16-bit field packed low byte first
Pack16LE(x) == <<x % 256, x \div 256>>

\* struct.pack('>H', x): big-endian unsigned 16 bits (x is in 0..0xFFFF)
Pack16(x) == <<x \div 256, x % 256>>

\* A 16-bit field read low byte first
Unpack16LE(s, off) == s[off + 2] * 256 + s[off + 1]

\* struct.unpack('>H', data[off:off+2])
Unpack16(s, off) == s[off + 1] * 256 + s[off + 2]

\* struct.unpack('>HHHHHH', data[:12]): the six fields of a header
UnpackHeader(d) == [i \in 1..6 |-> Unpack16(d, 2 * (i - 1))]

\* string.ascii_uppercase[i]; the string has 26 letters
AsciiUppercase(i) == 65 + i

\* the bytes that bytes.strip() removes: ASCII whitespace, at both ends
Whitespace == {9, 10, 11, 12, 13, 32}

RECURSIVE LStrip(_)
LStrip(s) ==
    IF s # <<>> /\ Head(s) \in Whitespace THEN LStrip(Tail(s)) ELSE s

RECURSIVE RStrip(_)
RStrip(s) ==
    IF s # <<>> /\ s[Len(s)] \in Whitespace
    THEN RStrip(SubSeq(s, 1, Len(s) - 1)) ELSE s

\* bytes.strip()
Strip(s) == RStrip(LStrip(s))

\* str(b, 'ascii') succeeds iff every byte is below 0x80
IsAscii(s) == \A i \in 1..Len(s) : s[i] < 128

----------------------------------------------------------------------------
(* Name Encoder *)

\* The 16-character name field built at the top of _encode_name
NameField(name, type) ==
    IF name = <<42>> THEN name \o Repeat(0, 15)
    ELSE IF Len(name) > 15 THEN SubSeq(name, 1, 15) \o <<type>>
    ELSE name \o Repeat(32, 15 - Len(name)) \o <<type>>

\* Whether _do_first_level_encoding raises IndexError on character s
FirstLevelFails(s) == s # 10 /\ (s \div 16) >= 26

\* re.sub('.', _do_first_level_encoding, c) for one character c: '.' matches
\* every character but the newline, which is therefore left as it is
FirstLevel(s) ==
    IF s = 10 THEN <<s>>
    ELSE <<AsciiUppercase(s \div 16), AsciiUppercase(s % 16)>>

\* _encode_name(name, type, scope); scope = <<>> stands for None (and for '').
\* The result is [exc |-> the exception raised or "", bytes |-> the value].
_encode_name(name, type, scope) ==
    LET field == NameField(name, type)
        encoded_name == <<Len(field) * 2>>
                        \o Flatten([i \in 1..Len(field) |-> FirstLevel(field[i])])
    IN  IF \E i \in 1..Len(field) : FirstLevelFails(field[i])
        THEN [exc |-> "IndexError", bytes |-> <<>>]
        ELSE IF scope # <<>>
        THEN [exc |-> "AttributeError", bytes |-> <<>>]
        ELSE IF ~IsAscii(encoded_name \o <<0>>)
        THEN [exc |-> "UnicodeEncodeError", bytes |-> <<>>]
        ELSE [exc |-> "", bytes |-> encoded_name \o <<0>>]

----------------------------------------------------------------------------
(* Query Builder *)

\* The broadcast flag set on every query
QueryFlagsAlways(is_broadcast) == 16

\* (is_broadcast and 0x0010) or 0x0000
QueryFlags(is_broadcast) == IF is_broadcast THEN 16 ELSE 0

\* struct.pack('>HHHHHH', a, b, c, d, e, f)
PackHeader(a, b, c, d, e, f) ==
    Pack16(a) \o Pack16(b) \o Pack16(c) \o Pack16(d) \o Pack16(e) \o Pack16(f)

_prepare_net_name_query(trn_id, is_broadcast) ==
    LET header == PackHeader(trn_id, QueryFlags(is_broadcast), 1, 0, 0, 0)
        payload == _encode_name(<<42>>, 0, <<>>).bytes \o <<0, 33, 0, 1>>
    IN  header \o payload

----------------------------------------------------------------------------
(* Packet Decoder *)

\* What a decode yields: exc is the exception raised ("" when it returns),
\* trn_id and (isNone, ret) the returned pair, unpacked whether the header
\* fields were unpacked, touched the highest 0-based index data[...] was
\* subscripted with (-1 when no byte was subscripted).
Decoded(exc, trn_id, isNone, ret, unpacked, touched) ==
    [exc |-> exc, trn_id |-> trn_id, isNone |-> isNone, ret |-> ret,
     unpacked |-> unpacked, touched |-> touched]

\* mynme = data[offset:offset + 15]; mynme = mynme.strip()
EntryName(d, offset) == Strip(Slice(d, offset, offset + NameLen))

\* The loop "for i in range(0, numnames)" from entry i on, ret holding the
\* pairs appended so far
RECURSIVE DecodeEntries(_, _, _, _, _)
DecodeEntries(d, trn_id, i, numnames, ret) ==
    LET offset == HEADER_STRUCT_SIZE + FirstEntryOffset + EntryLen * i
        mynme  == EntryName(d, offset)
    IN  IF i >= numnames
        THEN Decoded("", trn_id, FALSE, ret, TRUE,
                     offset - EntryLen + NameLen)
        ELSE IF ~IsAscii(mynme)
        THEN Decoded("UnicodeDecodeError", 0, TRUE, <<>>, TRUE,
                     Max(offset - EntryLen + NameLen,
                         HEADER_STRUCT_SIZE + NumNamesOffset))
        ELSE IF offset + NameLen >= Len(d)
        THEN Decoded("IndexError", 0, TRUE, <<>>, TRUE, offset + NameLen)
        ELSE DecodeEntries(d, trn_id, i + 1, numnames,
                 Append(ret, [name |-> mynme, type |-> d[offset + NameLen + 1]]))

\* _decode_ip_query_packet past its length test: the header is unpacked,
\* numnames is read and the entries are decoded
DecodeBody(d) ==
    LET trn_id == Unpack16(d, 0)
        at     == HEADER_STRUCT_SIZE + NumNamesOffset
    IN  IF at >= Len(d)
        THEN Decoded("IndexError", 0, TRUE, <<>>, TRUE, at)
        ELSE LET numnames == d[at + 1]
             IN  IF numnames > 0
                 THEN DecodeEntries(d, trn_id, 0, numnames, <<>>)
                 ELSE Decoded("", trn_id, TRUE, <<>>, TRUE, at)

\* A decoder that takes a buffer that ends before its numnames byte for a
\* reply without names
DecodeLenient(d) ==
    IF Len(d) < HEADER_STRUCT_SIZE
    THEN Decoded("Exception", 0, TRUE, <<>>, FALSE, -1)
    ELSE IF HEADER_STRUCT_SIZE + NumNamesOffset >= Len(d)
    THEN Decoded("", Unpack16(d, 0), TRUE, <<>>, TRUE, Len(d) - 1)
    ELSE DecodeBody(d)

\* The decoder with its length test off by one
DecodeShortHeader(d) ==
    IF Len(d) < HEADER_STRUCT_SIZE - 1
    THEN Decoded("Exception", 0, TRUE, <<>>, FALSE, -1)
    ELSE DecodeBody(d)

_decode_ip_query_packet(d) ==
    IF Len(d) < HEADER_STRUCT_SIZE
    THEN Decoded("Exception", 0, TRUE, <<>>, FALSE, -1)
    ELSE DecodeBody(d)

----------------------------------------------------------------------------
(* Inputs: transaction IDs, reply records and datagrams *)

\* Values random.randint(1, 0xFFFF) is drawn from
TrnIds == {1, 4660}

\* Timeouts handed to query_ip_for_name
Timeouts == 0..MaxTime

\* errno.EINTR and errno.EAGAIN
EINTR == 4
EAGAIN == 11

\* errno values select.select is made to fail with: an interrupted wait and
\* a genuine resource error (9 is EBADF)
WaitErrnos == {EINTR, 9}

Chars(name) == name \o Repeat(32, NameLen - Len(name))

\* 15-byte name fields of reply records
WORKSTATION == Chars(<<87, 79, 82, 75, 83, 84, 65, 84, 73, 79, 78>>)
FILESRV == Chars(<<70, 83>>)
PRINTER == Chars(<<80, 82>>)

Record(field, type) == [field |-> field, type |-> type]

\* An 18-byte entry of the name list: name, type, two bytes of name flags
Entry(r) == r.field \o <<r.type>> \o <<4, 0>>

\* A reply datagram: header, the 44 bytes before numnames, numnames, entries
Reply(id, recs) ==
    PackHeader(id, 33792, 0, 1, 0, 0) \o Repeat(0, NumNamesOffset)
    \o <<Len(recs)>> \o Flatten([i \in 1..Len(recs) |-> Entry(recs[i])])

\* The datagrams that may arrive on the socket during an exchange: an empty
\* one, one shorter than a header, a copy of the query sent with ID 1, a
\* reply that reports no names, one with three names, and one whose only
\* name is not of type TYPE_SERVER
Datagrams ==
    { <<>>,
      SubSeq(Reply(1, <<>>), 1, HEADER_STRUCT_SIZE - 1),
      _prepare_net_name_query(1, FALSE),
      Reply(1, <<>>),
      Reply(1, <<Record(WORKSTATION, TYPE_SERVER), Record(PRINTER, 0),
                 Record(FILESRV, TYPE_SERVER)>>),
      Reply(4660, <<Record(PRINTER, 0)>>) }

----------------------------------------------------------------------------
(* Outcomes of an operation *)

Running == [kind |-> "running", exc |-> "", errno |-> 0,
            isNone |-> FALSE, names |-> <<>>]

ReturnedNone == [kind |-> "return", exc |-> "", errno |-> 0,
                 isNone |-> TRUE, names |-> <<>>]

Returned(names) == [kind |-> "return", exc |-> "", errno |-> 0,
                    isNone |-> FALSE, names |-> names]

Raised(exc, errno) == [kind |-> "raise", exc |-> exc, errno |-> errno,
                       isNone |-> FALSE, names |-> <<>>]

NoDecode == Decoded("", 0, TRUE, <<>>, FALSE, -1)

NoResult == [kind |-> "none", exc |-> "", errno |-> 0,
             isNone |-> FALSE, names |-> <<>>]

\* No helper has been called on its own
NoArg == [name |-> <<>>, type |-> 0, scope |-> <<>>, trn_id |-> 0,
          is_broadcast |-> FALSE]

NoOut == [exc |-> "", bytes |-> <<>>]

----------------------------------------------------------------------------
(* The instance: __init__, close, _write *)

Init ==
    /\ sock = "open"
    /\ broadcast \in BOOLEAN
    /\ pc = "idle"
    /\ now = 0
    /\ wait_trn_id = 0
    /\ end_time = 0
    /\ remaining = 0
    /\ inbox = <<>>
    /\ arrived = 0
    /\ data = <<>>
    /\ dec = NoDecode
    /\ wire = <<>>
    /\ op = "none"
    /\ calls = 0
    /\ waits = 0
    /\ recvs = 0
    /\ last = ""
    /\ result = NoResult
    /\ arg = NoArg
    /\ out = NoOut

\* "assert self.sock, 'Socket is already closed'" raises when sock is None
AssertSockFails == sock = "None"

\* A _write that uses the socket without looking at it
WriteUnchecked == ""

\* What _write(data, ip, port) raises ("" when it sends)
WriteRaises ==
    IF AssertSockFails THEN "AssertionError"
    ELSE IF sock = "None" THEN "AttributeError"
    ELSE ""

\* A write that transmits the datagram twice
SendtoTwice(w, d) == Append(Append(w, d), d)

\* self.sock.sendto(data, (ip, port)): the datagrams handed to the transport
Sendto(w, d) == Append(w, d)

\* A call starts: the per-call records are reset
StartCall(name) ==
    /\ pc = "idle"
    /\ op' = name
    /\ waits' = 0
    /\ recvs' = 0
    /\ data' = <<>>
    /\ dec' = NoDecode

\* close()
Close ==
    /\ StartCall("close")
    /\ IF sock = "None"
       THEN /\ result' = Raised("AttributeError", 0)
            /\ UNCHANGED <<sock, inbox>>
       ELSE /\ sock' = "None"
            /\ inbox' = <<>>
            /\ result' = ReturnedNone
    /\ wire' = <<>>
    /\ last' = "close"
    /\ UNCHANGED <<arg, out>>
    /\ UNCHANGED <<broadcast, pc, now, wait_trn_id, end_time,
                   remaining, arrived, calls>>

\* _write(data, ip, port), called on its own
Write(d) ==
    /\ StartCall("write")
    /\ IF WriteRaises # ""
       THEN /\ result' = Raised(WriteRaises, 0)
            /\ wire' = <<>>
       ELSE /\ result' = ReturnedNone
            /\ wire' = Sendto(<<>>, d)
    /\ last' = "write"
    /\ UNCHANGED <<arg, out>>
    /\ UNCHANGED <<sock, broadcast, pc, now, wait_trn_id, end_time,
                   remaining, inbox, arrived, calls>>

----------------------------------------------------------------------------
(* The environment: the clock and the network *)

\* Time passes while an exchange runs.  The clock is read at the top of the
\* loop only, so time that passes around recvfrom is time that passes
\* before the next reading.
Tick ==
    /\ pc \in {"loop", "select"}
    /\ now < MaxTime
    /\ now' = now + 1
    /\ UNCHANGED <<arg, out>>
    /\ UNCHANGED <<sock, broadcast, pc, wait_trn_id, end_time,
                   remaining, inbox, arrived, data, dec, wire, op, calls,
                   waits, recvs, last, result>>

\* A datagram arrives on the socket and is queued.  Nothing reads the queue
\* between two calls or while a received datagram is decoded, so a datagram
\* that arrives then is one that arrives at the next top of the loop.
Arrive(d) ==
    /\ sock = "open"
    /\ pc \in {"loop", "select"}
    /\ arrived < MaxArrivals
    /\ inbox' = Append(inbox, d)
    /\ arrived' = arrived + 1
    /\ UNCHANGED <<arg, out>>
    /\ UNCHANGED <<sock, broadcast, pc, now, wait_trn_id, end_time,
                   remaining, data, dec, wire, op, calls, waits, recvs,
                   last, result>>

----------------------------------------------------------------------------
(* query_ip_for_name and _poll_for_query_packet *)

\* The names of all the records, whatever their type
ServerNamesUnfiltered(ret) == [i \in 1..Len(ret) |-> ret[i].name]

\* The names of the records of type TYPE_SERVER, in order
RECURSIVE ServerNames(_)
ServerNames(ret) ==
    IF ret = <<>> THEN <<>>
    ELSE IF Head(ret).type = TYPE_SERVER
         THEN <<Head(ret).name>> \o ServerNames(Tail(ret))
         ELSE ServerNames(Tail(ret))

\* A return of None whenever no name of type TYPE_SERVER is left
QueryReturnNoneIfEmpty(isNone, ret) ==
    IF ~isNone /\ ServerNames(ret) # <<>>
    THEN Returned(ServerNames(ret)) ELSE ReturnedNone

\* What query_ip_for_name returns for the value ret of the poll
\* ("if ret:" is false for None and for an empty list)
QueryReturn(isNone, ret) ==
    IF ~isNone /\ ret # <<>> THEN Returned(ServerNames(ret)) ELSE ReturnedNone

\* "type(ex) is tuple": ex is an exception instance, never a tuple
ExIsTuple == FALSE

\* The handler falls off its end and the while loop iterates again
Retry == [kind |-> "retry", exc |-> "", errno |-> 0,
          isNone |-> FALSE, names |-> <<>>]

\* The handler "except select.error as ex" for an error with this errno:
\* Retry when the loop goes on, else the exception the exchange ends with.
\* The tuple branch names errno, which the module never imports, so its
\* test raises NameError before any errno is compared.
OnSelectError(e) ==
    IF ExIsTuple THEN Raised("NameError", 0) ELSE Raised("select.error", e)

\* "raise NotConnectedError": the module neither defines nor imports that
\* name, so evaluating it raises NameError
RaiseNotConnectedError == Raised("NameError", 0)

\* The exchange ends: control is back at the caller
Finish(r, step) ==
    /\ pc' = "idle"
    /\ result' = r
    /\ last' = step

\* The instance's broadcast setting handed to the builder
QueryBroadcastArgInstance == broadcast

\* The second argument of "self._prepare_net_name_query(trn_id, False)"
QueryBroadcastArg == FALSE

\* query_ip_for_name up to the first iteration of the poll loop
Query(timeout, trn_id) ==
    /\ StartCall("query")
    /\ calls < MaxCalls
    /\ calls' = calls + 1
    /\ now + timeout <= MaxTime
    /\ IF AssertSockFails
       THEN /\ result' = Raised("AssertionError", 0)
            /\ wire' = <<>>
            /\ last' = "closed"
            /\ UNCHANGED <<pc, wait_trn_id, end_time>>
       ELSE IF WriteRaises # ""
       THEN /\ result' = Raised(WriteRaises, 0)
            /\ wire' = <<>>
            /\ last' = "closed"
            /\ UNCHANGED <<pc, wait_trn_id, end_time>>
       ELSE /\ wire' = Sendto(<<>>, _prepare_net_name_query(trn_id,
                                                                QueryBroadcastArg))
            /\ wait_trn_id' = trn_id
            /\ end_time' = now + timeout
            /\ pc' = "loop"
            /\ result' = Running
            /\ last' = "send"
    /\ UNCHANGED <<arg, out>>
    /\ UNCHANGED <<sock, broadcast, now, remaining, inbox, arrived>>

\* A deadline test that never fires
DeadlineNever == FALSE

\* "_current = time.time(); if _current >= end_time"
DeadlineReached == now >= end_time

\* "if _current >= end_time: return None", else the call of select.select
\* with the time remaining
LoopTop ==
    /\ pc = "loop"
    /\ IF DeadlineReached
       THEN /\ Finish(QueryReturn(TRUE, <<>>), "deadline")
            /\ UNCHANGED <<remaining, waits>>
       ELSE /\ remaining' = end_time - now
            /\ waits' = waits + 1
            /\ pc' = "select"
            /\ last' = "wait"
            /\ UNCHANGED result
    /\ UNCHANGED <<arg, out>>
    /\ UNCHANGED <<sock, broadcast, now, wait_trn_id, end_time, inbox,
                   arrived, data, dec, wire, op, calls, recvs>>

\* select.select returns the socket as ready
SelectReady ==
    /\ pc = "select"
    /\ inbox # <<>>
    /\ pc' = "recv"
    /\ last' = "ready"
    /\ UNCHANGED <<arg, out>>
    /\ UNCHANGED <<sock, broadcast, now, wait_trn_id, end_time,
                   remaining, inbox, arrived, data, dec, wire, op, calls,
                   waits, recvs, result>>

\* select.select returns nothing ready after its timeout: "return None"
SelectTimeout ==
    /\ pc = "select"
    /\ inbox = <<>>
    /\ now >= end_time
    /\ Finish(QueryReturn(TRUE, <<>>), "notready")
    /\ UNCHANGED <<arg, out>>
    /\ UNCHANGED <<sock, broadcast, now, wait_trn_id, end_time,
                   remaining, inbox, arrived, data, dec, wire, op, calls,
                   waits, recvs>>

\* select.select raises select.error with errno e
SelectError(e) ==
    /\ pc = "select"
    /\ IF OnSelectError(e) = Retry
       THEN /\ pc' = "loop"
            /\ last' = "retry"
            /\ UNCHANGED result
       ELSE Finish(OnSelectError(e), "waiterror")
    /\ UNCHANGED <<arg, out>>
    /\ UNCHANGED <<sock, broadcast, now, wait_trn_id, end_time,
                   remaining, inbox, arrived, data, dec, wire, op, calls,
                   waits, recvs>>

\* recvfrom, the length test, the decode and the comparison of the IDs
Recv ==
    /\ pc = "recv"
    /\ LET d == Slice(Head(inbox), 0, RecvMax)
           r == _decode_ip_query_packet(d)
       IN  /\ data' = d
           /\ inbox' = Tail(inbox)
           /\ recvs' = recvs + 1
           /\ IF Len(d) = 0
              THEN /\ dec' = NoDecode
                   /\ Finish(RaiseNotConnectedError, "zero")
              ELSE /\ dec' = r
                   /\ IF r.exc # ""
                      THEN Finish(Raised(r.exc, 0), "decodeerror")
                      ELSE IF r.trn_id = wait_trn_id
                      THEN Finish(QueryReturn(r.isNone, r.ret), "match")
                      ELSE /\ pc' = "loop"
                           /\ last' = "discard"
                           /\ UNCHANGED result
    /\ UNCHANGED <<arg, out>>
    /\ UNCHANGED <<sock, broadcast, now, wait_trn_id, end_time,
                   remaining, arrived, wire, op, calls, waits>>

----------------------------------------------------------------------------
(* The decoder called on its own *)

\* Entries of the buffers the decoder is called on: names padded with
\* blanks, a name that begins with a blank, a name padded with NULs, a name
\* with a byte above 0x7F
Catalog ==
    { Record(WORKSTATION, TYPE_SERVER),
      Record(PRINTER, 0),
      Record(FILESRV, TYPE_SERVER),
      Record(Chars(<<32, 65, 66>>), TYPE_SERVER),
      Record(<<65, 66>> \o Repeat(0, NameLen - 2), TYPE_SERVER),
      Record(Chars(<<233, 66>>), TYPE_SERVER) }

\* The record lists of at most MaxNames entries
RecordLists == UNION { [1..k -> Catalog] : k \in 0..MaxNames }

\* How many bytes a buffer is cut short by
Cuts == 0..3

\* The buffers: every reply over the catalog, whole or cut short at its end,
\* and every prefix of a reply that reports no names
Buffers ==
    { SubSeq(Reply(id, recs), 1, Len(Reply(id, recs)) - c) :
        id \in TrnIds, recs \in RecordLists, c \in Cuts }
    \cup { SubSeq(Reply(4660, <<>>), 1, n) :
             n \in 0..(HEADER_STRUCT_SIZE + NumNamesOffset) }

\* _decode_ip_query_packet(b), called on its own
DecodeCall(b) ==
    /\ op = "none"
    /\ op' = "decode"
    /\ data' = b
    /\ dec' = _decode_ip_query_packet(b)
    /\ UNCHANGED <<arg, out>>
    /\ UNCHANGED <<sock, broadcast, pc, now, wait_trn_id, end_time,
                   remaining, inbox, arrived, wire, calls, waits, recvs,
                   last, result>>

NextDecode == \E b \in Buffers : DecodeCall(b)

SpecDecode == Init /\ [][NextDecode]_vars

----------------------------------------------------------------------------
(* The query builder called on its own *)

\* Values of the high and of the low byte of the transaction IDs tried
ByteSamples == {0, 1, 16, 18, 52, 127, 128, 255}

\* The transaction IDs the builder is called with, 0x1234 among them
BuildIds == { hi * 256 + lo : hi \in ByteSamples, lo \in ByteSamples }

\* _prepare_net_name_query(trn_id, is_broadcast), called on its own
BuildCall(trn_id, is_broadcast) ==
    /\ op = "none"
    /\ op' = "build"
    /\ arg' = [NoArg EXCEPT !.trn_id = trn_id, !.is_broadcast = is_broadcast]
    /\ out' = [exc |-> "", bytes |-> _prepare_net_name_query(trn_id, is_broadcast)]
    /\ UNCHANGED <<sock, broadcast, pc, now, wait_trn_id, end_time,
                   remaining, inbox, arrived, data, dec, wire, calls, waits,
                   recvs, last, result>>

NextBuild == \E trn_id \in BuildIds, is_broadcast \in BOOLEAN :
                 BuildCall(trn_id, is_broadcast)

SpecBuild == Init /\ [][NextBuild]_vars

----------------------------------------------------------------------------
(* The name encoder called on its own *)

\* The names the encoder is called with: '', '*', 'AB', 'A\nB', a name of 15
\* characters, one of 17, and names with the code points 233, 288 and 416
EncodeNames ==
    { <<>>, <<42>>, <<65, 66>>, <<65, 10, 66>>,
      [i \in 1..15 |-> 64 + i], [i \in 1..17 |-> 64 + i],
      <<233>>, <<288, 66>>, <<416>> }

\* The type bytes the encoder is called with
EncodeTypes == {0, 10, 32, 127, 128, 255}

\* The scopes: none, 'x.y', and one with the code point 233
EncodeScopes == { <<>>, <<120, 46, 121>>, <<233>> }

\* _encode_name(name, type, scope), called on its own
EncodeCall(name, type, scope) ==
    /\ op = "none"
    /\ op' = "encode"
    /\ arg' = [NoArg EXCEPT !.name = name, !.type = type, !.scope = scope]
    /\ out' = _encode_name(name, type, scope)
    /\ UNCHANGED <<sock, broadcast, pc, now, wait_trn_id, end_time,
                   remaining, inbox, arrived, data, dec, wire, calls, waits,
                   recvs, last, result>>

NextEncode == \E name \in EncodeNames, type \in EncodeTypes,
                 scope \in EncodeScopes : EncodeCall(name, type, scope)

SpecEncode == Init /\ [][NextEncode]_vars

----------------------------------------------------------------------------

Next ==
    \/ Close
    \/ Write(_prepare_net_name_query(1, TRUE))
    \/ Tick
    \/ \E d \in Datagrams : Arrive(d)
    \/ \E t \in Timeouts, id \in TrnIds : Query(t, id)
    \/ LoopTop
    \/ SelectReady
    \/ SelectTimeout
    \/ \E e \in WaitErrnos : SelectError(e)
    \/ Recv

Spec == Init /\ [][Next]_vars

----------------------------------------------------------------------------
(* Properties of the exchange *)

\* An exchange of query_ip_for_name that got past its send has ended
Ended == op = "query" /\ pc = "idle" /\ last # "closed"

\* C1: a received datagram whose transaction ID differs from the one sent is
\* discarded and polling continues: receiving it never ends the exchange and
\* never supplies its result.
C1_MismatchDiscarded ==
    [][(/\ pc = "recv"
        /\ recvs' = recvs + 1
        /\ Len(data') >= HEADER_STRUCT_SIZE
        /\ Unpack16(data', 0) # wait_trn_id)
       => (pc' = "loop" /\ result' = result /\ end_time' = end_time)]_vars

\* C2: when no datagram arrives within the timeout window (and the wait
\* meets no genuine resource error), the call returns None and no exception
\* escapes.
C2_QuietWindowReturnsNone ==
    (/\ Ended
     /\ arrived = 0
     /\ ~(last = "waiterror" /\ result.errno \notin {EINTR, EAGAIN}))
    => result = ReturnedNone

IsServer(r) == r.type = 32

NamesOf(rs) == [i \in 1..Len(rs) |-> rs[i].name]

\* C3: when the datagram with the ID sent arrives and decodes to a list of
\* records, the call returns exactly the names of the records of type 0x20,
\* in record order, and they are records of that datagram.
C3_MatchingReplyNames ==
    (Ended /\ last = "match" /\ ~dec.isNone)
    => /\ Unpack16(data, 0) = wait_trn_id
       /\ result = Returned(NamesOf(SelectSeq(dec.ret, IsServer)))
       /\ data = Reply(wait_trn_id,
                       <<Record(WORKSTATION, TYPE_SERVER), Record(PRINTER, 0),
                         Record(FILESRV, TYPE_SERVER)>>)
          => result.names = << <<87, 79, 82, 75, 83, 84, 65, 84, 73, 79, 78>>,
                               <<70, 83>> >>

\* C3 witness: the three-record reply matched after another datagram had
\* been discarded
C3_Witness ==
    /\ Ended
    /\ last = "match"
    /\ recvs >= 2
    /\ result.names = << <<87, 79, 82, 75, 83, 84, 65, 84, 73, 79, 78>>,
                         <<70, 83>> >>

\* C4: a call of query_ip_for_name sends at most one datagram: the query,
\* once, before polling starts, and nothing during polling or at its end.
C4_AtMostOneSend ==
    op = "query"
    => /\ Len(wire) <= 1
       /\ last # "closed"
          => wire = <<_prepare_net_name_query(wait_trn_id, FALSE)>>

\* C4 witness: an exchange that discarded a datagram and then timed out
C4_Witness ==
    Ended /\ recvs >= 1 /\ last = "notready" /\ Len(wire) = 1

\* C5: once close() has returned, every operation fails at once with an
\* error: nothing is sent, nothing is waited for, nothing is received.
C5_ClosedFailsFast ==
    [][sock = "None"
       => /\ result'.kind = "raise"
          /\ wire' = <<>>
          /\ waits' = 0
          /\ recvs' = 0
          /\ pc' = "idle"
          /\ inbox' = inbox
          /\ sock' = "None"]_vars

\* C5 witness: query_ip_for_name called after close()
C5_Witness ==
    sock = "None" /\ op = "query" /\ result.exc = "AssertionError"

\* C6: a zero-length datagram ends the exchange at once in a transport-closed
\* error.
C6_ZeroLengthTransportClosed ==
    (Ended /\ last = "zero")
    => (result.kind = "raise" /\ result.exc = "NotConnectedError")

\* C7: an interrupted wait (EINTR, EAGAIN) is retried inside the exchange
\* and never surfaces to the caller.
C7_InterruptedWaitRetried ==
    ~(/\ result.kind = "raise"
      /\ result.exc = "select.error"
      /\ result.errno \in {EINTR, EAGAIN})

----------------------------------------------------------------------------
(* Properties of the decoder *)

\* C8: a buffer shorter than 12 bytes makes the decoder fail with its
\* framing error before it unpacks a header field or subscripts a byte.
C8_ShortBufferFramingError ==
    (op = "decode" /\ Len(data) < 12)
    => (dec.exc = "Exception" /\ ~dec.unpacked /\ dec.touched = -1)

\* C8 witness: an 11-byte buffer was decoded
C8_Witness ==
    op = "decode" /\ Len(data) = 11 /\ dec.exc = "Exception"

\* C9: a buffer of at least 12 bytes that is shorter than 12 + 45 +
\* 18 * numnames bytes, or that does not hold the numnames byte, makes the
\* decoder fail.
C9_TruncatedReplyFails ==
    (/\ op = "decode"
     /\ Len(data) >= 12
     /\ (Len(data) <= 12 + 44 \/ Len(data) < 12 + 45 + 18 * data[12 + 44 + 1]))
    => dec.exc # ""

\* The bytes of s without its trailing blanks and NULs
RECURSIVE TrimPadding(_)
TrimPadding(s) ==
    IF s # <<>> /\ s[Len(s)] \in {32, 0}
    THEN TrimPadding(SubSeq(s, 1, Len(s) - 1)) ELSE s

\* A buffer that holds exactly the entries its numnames byte declares, with
\* names of ASCII bytes
WellFormed(d) ==
    /\ Len(d) > 12 + 44
    /\ Len(d) = 12 + 45 + 18 * d[12 + 44 + 1]
    /\ \A i \in (12 + 45 + 1)..Len(d) : d[i] < 128

\* C10: for a well-formed reply the decoder returns None when numnames is 0
\* and else numnames pairs, the i-th from the entry at 12 + 45 + 18*i: the
\* name is bytes [0:15] less the trailing padding and nothing else, the type
\* is byte [15].
C10_DecodedRecords ==
    (op = "decode" /\ WellFormed(data))
    => LET n == data[12 + 44 + 1]
       IN  /\ dec.exc = ""
           /\ dec.trn_id = data[1] * 256 + data[2]
           /\ dec.isNone = (n = 0)
           /\ Len(dec.ret) = n
           /\ \A i \in 1..n :
                LET off == 12 + 45 + 18 * (i - 1)
                IN  /\ dec.ret[i].name = TrimPadding(SubSeq(data, off + 1, off + 15))
                    /\ dec.ret[i].type = data[off + 16]

----------------------------------------------------------------------------
(* Properties of the query builder and of the name encoder *)

\* The 32 characters that encode '*' followed by 15 NULs: "CK" and 30 "A"
WildcardChars == <<67, 75>> \o Repeat(65, 30)

\* C11: for every transaction ID and both values of is_broadcast, the
\* datagram built is a 12-byte header with that ID, the flags word 0x0010
\* when is_broadcast and 0x0000 when not, question count 1 and the other
\* three counts 0, then the encoded wildcard name and the bytes 00 21 00 01.
C11_QueryLayout ==
    op = "build"
    => /\ out.exc = ""
       /\ arg.trn_id \in 0..65535
       /\ Len(out.bytes) = 12 + 34 + 4
       /\ out.bytes[1] * 256 + out.bytes[2] = arg.trn_id
       /\ out.bytes[1] \in 0..255 /\ out.bytes[2] \in 0..255
       /\ SubSeq(out.bytes, 3, 4) = IF arg.is_broadcast THEN <<0, 16>> ELSE <<0, 0>>
       /\ SubSeq(out.bytes, 5, 12) = <<0, 1, 0, 0, 0, 0, 0, 0>>
       /\ SubSeq(out.bytes, 13, 46) = <<32>> \o WildcardChars \o <<0>>
       /\ SubSeq(out.bytes, 47, 50) = <<0, 33, 0, 1>>

\* C11 witness: the builder was called with the ID 0xFFFF and without the
\* broadcast flag
C11_Witness ==
    /\ op = "build"
    /\ arg.trn_id = 65535
    /\ ~arg.is_broadcast
    /\ SubSeq(out.bytes, 1, 4) = <<255, 255, 0, 0>>

\* C12 as stated: the broadcast query with the ID 0x1234 has the header
\* 34 12 00 10 00 01 00 00 00 00 00 00, a body that starts with the length
\* byte 0x20 and the 32 characters of the wildcard field, and ends with
\* 00 21 00 01.
C12_Query1234LowByteFirst ==
    (op = "build" /\ arg.trn_id = 4660 /\ arg.is_broadcast)
    => /\ SubSeq(out.bytes, 1, 12) = <<52, 18, 0, 16, 0, 1, 0, 0, 0, 0, 0, 0>>
       /\ SubSeq(out.bytes, 13, 45) = <<32>> \o WildcardChars
       /\ SubSeq(out.bytes, Len(out.bytes) - 3, Len(out.bytes)) = <<0, 33, 0, 1>>

\* C12 amended: the broadcast query with the ID 0x1234 has the header
\* 12 34 00 10 00 01 00 00 00 00 00 00 (the ID high byte first), a body that
\* starts with the length byte 0x20 and the 32 characters of the wildcard
\* field, and ends with 00 21 00 01.
C12_Query1234Bytes ==
    (op = "build" /\ arg.trn_id = 4660 /\ arg.is_broadcast)
    => /\ SubSeq(out.bytes, 1, 12) = <<18, 52, 0, 16, 0, 1, 0, 0, 0, 0, 0, 0>>
       /\ SubSeq(out.bytes, 13, 45) = <<32>> \o WildcardChars
       /\ SubSeq(out.bytes, Len(out.bytes) - 3, Len(out.bytes)) = <<0, 33, 0, 1>>

\* C12 witness: the broadcast query with the ID 0x1234 has been built
C12_Witness ==
    /\ op = "build"
    /\ arg.trn_id = 4660
    /\ arg.is_broadcast
    /\ Len(out.bytes) = 50

\* The 16-byte field of a name and a type byte: '*' and 15 NULs for the
\* wildcard, else the name cut or blank-padded to 15 bytes, then the type
ExpectedField(name, type) ==
    IF name = <<42>> THEN <<42>> \o [i \in 1..15 |-> 0]
    ELSE [i \in 1..15 |-> IF i <= Len(name) THEN name[i] ELSE 32] \o <<type>>

\* C13: for every ASCII name and every type byte, without a scope, the
\* encoder returns the length byte 32, then 32 characters that encode the
\* 16-byte field two per byte as 'A' + high nibble and 'A' + low nibble, then
\* a NUL; decoding the pairs gives the field back.
C13_EncodedField ==
    (op = "encode" /\ IsAscii(arg.name) /\ arg.type \in 0..255
                   /\ arg.scope = <<>>)
    => /\ out.exc = ""
       /\ Len(out.bytes) = 34
       /\ out.bytes[1] = 32
       /\ out.bytes[34] = 0
       /\ \A k \in 1..16 :
            LET b  == ExpectedField(arg.name, arg.type)[k]
                c1 == out.bytes[2 * k]
                c2 == out.bytes[2 * k + 1]
            IN  /\ c1 = 65 + (b \div 16)
                /\ c2 = 65 + (b % 16)
                /\ (c1 - 65) * 16 + (c2 - 65) = b

\* Whether a string has a character outside ASCII
HasNonAscii(s) == \E i \in 1..Len(s) : s[i] >= 128

\* C14: the encoder rejects every name or scope that has a non-ASCII
\* character and returns no byte string for it; every byte string it
\* returns has only bytes below 0x80.
C14_NonAsciiRejected ==
    op = "encode"
    => /\ (HasNonAscii(arg.name) \/ HasNonAscii(arg.scope)) => out.exc # ""
       /\ out.exc = "" => \A i \in 1..Len(out.bytes) : out.bytes[i] < 128

\* C15: unpacking the first 12 bytes of the datagram built gives back the
\* transaction ID and the flags word that were packed and the counts
\* (1, 0, 0, 0).
C15_HeaderRoundTrip ==
    op = "build"
    => UnpackHeader(SubSeq(out.bytes, 1, HEADER_STRUCT_SIZE))
       = <<arg.trn_id, IF arg.is_broadcast THEN 16 ELSE 0, 1, 0, 0, 0>>

\* C15 witness: a header whose ID has two different bytes was built and
\* unpacked
C15_Witness ==
    /\ op = "build"
    /\ arg.trn_id = 13330
    /\ UnpackHeader(SubSeq(out.bytes, 1, HEADER_STRUCT_SIZE))[1] = 13330

----------------------------------------------------------------------------
(* Further properties of the exchange *)

\* C16: when the exchange receives a copy of the query it has just sent,
\* the copy is discarded and polling continues: it neither ends the exchange
\* with an error nor is returned as the reply.
C16_EchoDiscarded ==
    [][(/\ pc = "recv"
        /\ recvs' = recvs + 1
        /\ wire # <<>>
        /\ data' = wire[1])
       => (pc' = "loop" /\ result' = result)]_vars

\* A datagram shorter than a header, or than the part the decoder reads of
\* the structure it declares
TooShort(d) ==
    \/ Len(d) < 12
    \/ Len(d) < 12 + 45
    \/ Len(d) < 12 + 45 - 2 + 18 * d[12 + 45]

\* C17: a framing error raised while a received datagram is decoded ends
\* the call at once with that error: no further datagram is awaited or
\* received, and nothing is sent.
C17_FramingErrorSurfaces ==
    [][(/\ pc = "recv"
        /\ recvs' = recvs + 1
        /\ Len(data') > 0
        /\ TooShort(data'))
       => (/\ pc' = "idle"
           /\ result'.kind = "raise"
           /\ result'.exc = IF Len(data') < 12 THEN "Exception" ELSE "IndexError"
           /\ waits' = waits
           /\ inbox' = Tail(inbox)
           /\ wire' = wire
           /\ now' = now)]_vars

\* C17 witness: the exchange discarded a datagram and then ended with the
\* IndexError of a datagram that stops before its numnames byte
C17_Witness ==
    /\ Ended
    /\ last = "decodeerror"
    /\ recvs = 2
    /\ Len(data) >= 12
    /\ result = Raised("IndexError", 0)

\* What C18 says of every step but the receiving of datagrams: the deadline
\* is start time + timeout, it is never moved while the exchange runs,
\* every wait is started with the strictly positive time that remains to
\* it, and once the clock has reached it the top of the loop returns None.
DeadlineSteps ==
    /\ (pc = "idle" /\ pc' = "loop")
       => (end_time' - now \in Timeouts /\ now' = now)
    /\ (pc # "idle") => end_time' = end_time
    /\ (waits' = waits + 1)
       => (now < end_time /\ remaining' = end_time - now /\ remaining' > 0)
    /\ (pc = "loop" /\ now >= end_time /\ pc' # "loop")
       => (pc' = "idle" /\ result' = ReturnedNone /\ recvs' = recvs)

\* C18 as stated: the deadline is computed once and never moved, every wait
\* is bounded by the positive time remaining, no datagram is received once
\* the clock has reached the deadline, and the exchange ends with None once
\* it has.
C18_NoReceiveAtDeadline ==
    [][DeadlineSteps /\ (recvs' = recvs + 1 => now < end_time)]_vars

\* C18 amended: the deadline is computed once and never moved, every wait
\* is bounded by the positive time remaining, no wait is started once the
\* clock has reached the deadline (a datagram that a wait started earlier
\* found ready may still be received, and is the last), and the exchange
\* ends with None at the next top of the loop.
C18_DeadlineFixed ==
    [][/\ DeadlineSteps
       /\ (recvs' = recvs + 1 /\ now >= end_time /\ pc' # "idle")
          => (pc' = "loop" /\ waits' = waits /\ end_time' = end_time)]_vars

\* C18 witness: two mismatching datagrams were discarded and the exchange
\* ended with None at the deadline
C18_Witness ==
    /\ Ended
    /\ last = "deadline"
    /\ recvs = 2
    /\ now >= end_time
    /\ end_time > 0
    /\ result = ReturnedNone

\* C19: a call that returns returns None exactly when it timed out or the
\* matching reply declares no names; when the matching reply declares names
\* the result is a list, the empty list when no record has type 0x20.
C19_NoneOrList ==
    (Ended /\ result.kind = "return")
    => /\ result.isNone
          <=> (\/ last \in {"deadline", "notready"}
               \/ (last = "match" /\ data[12 + 45] = 0))
       /\ (last = "match" /\ data[12 + 45] >= 1)
          => /\ ~result.isNone
             /\ result # ReturnedNone
             /\ (\A i \in 1..data[12 + 45] :
                    data[12 + 45 + 18 * (i - 1) + 16] # 32)
                => result.names = <<>>

\* C19 witness: the matching reply had one record, not of type 0x20, and
\* the call returned the empty list
C19_Witness ==
    /\ Ended
    /\ last = "match"
    /\ data[12 + 45] = 1
    /\ result.kind = "return"
    /\ ~result.isNone
    /\ result.names = <<>>

\* C20: the datagram query_ip_for_name sends is its transaction ID, drawn
\* from 1..0xFFFF, followed by the same bytes whatever the instance's
\* broadcast setting, with the flags word 0x0000; a query leaves the setting
\* as it was.
C20_QueryIgnoresBroadcast ==
    [][/\ (pc = "idle" /\ op' = "query" /\ wire' # <<>>)
          => /\ wait_trn_id' \in 1..65535
             /\ wire' = << <<wait_trn_id' \div 256, wait_trn_id' % 256>>
                           \o <<0, 0, 0, 1, 0, 0, 0, 0, 0, 0>>
                           \o <<32>> \o WildcardChars \o <<0>>
                           \o <<0, 33, 0, 1>> >>
       /\ (op' = "query") => broadcast' = broadcast]_vars

\* C20 witness: an instance with the broadcast setting on has sent a query
C20_Witness ==
    /\ op = "query"
    /\ broadcast
    /\ wire # <<>>
    /\ SubSeq(wire[1], 3, 4) = <<0, 0>>
====
